---- MODULE Spec2Model ----
(***************************************************************************)
(* Model of the WMS expiration analyser (src/wms-analyzer).                *)
(*                                                                         *)
(*   data_processor.py  WMSDataProcessor.parse_date     -> ParseDate       *)
(*                      WMSDataProcessor._find_column   -> FindColumn      *)
(*                      WMSDataProcessor.process_data   -> ResolveColumns, *)
(*                                                 ProcessRow, Finalize    *)
(*                                                                         *)
(* A cell of the DataFrame is what pandas gives under dtype=str: a Python  *)
(* str, or the float NaN for a cell that is empty or missing.  Text is a   *)
(* TLA+ string; Python floats are fixed-point numbers with FracDigits      *)
(* decimal digits plus the IEEE specials nan and +/-inf.                   *)
(***************************************************************************)
EXTENDS Integers, Sequences, FiniteSets, TLC

\* ------------------------------------------------------------------ bounds
\* Rows of the input table.
MaxRows == 3
\* Day and month numbers written into generated date texts: 0..MaxDay, 0..MaxMonth.
MaxDay == 32
MaxMonth == 13
\* Decimal digits kept after the point of a float.
FracDigits == 3

\* ------------------------------------------------------------------- cells
NA == [na |-> TRUE, s |-> ""]
Txt(s) == [na |-> FALSE, s |-> s]

\* pd.isna(x)
IsNa(c) == c.na
\* str(x): the float NaN prints as 'nan'
Str(c) == IF c.na THEN "nan" ELSE c.s
\* bool(x): NaN is a non-zero float, hence true; a str is true when non-empty
Truthy(c) == c.na \/ c.s /= ""

\* ------------------------------------------------------------ Python text
\* s[i-1:j] with Python's clamping of the slice to the text
Slice(s, i, j) ==
    IF i > j \/ i > Len(s) THEN "" ELSE SubSeq(s, i, IF j > Len(s) THEN Len(s) ELSE j)
Ch(s, i) == Slice(s, i, i)
IsDigit(c) == c \in {"0", "1", "2", "3", "4", "5", "6", "7", "8", "9"}
IsSpace(c) == c \in {" ", "\t", "\n", "\r"}

RECURSIVE AllDigits(_)
AllDigits(s) == s = "" \/ (IsDigit(Head(s)) /\ AllDigits(Tail(s)))

\* \d{lo,hi} against the whole of s
DigitRun(s, lo, hi) == Len(s) >= lo /\ Len(s) <= hi /\ AllDigits(s)

RECURSIVE LStrip(_)
LStrip(s) == IF s /= "" /\ IsSpace(Head(s)) THEN LStrip(Tail(s)) ELSE s
RECURSIVE RStrip(_)
RStrip(s) ==
    IF s /= "" /\ IsSpace(Ch(s, Len(s))) THEN RStrip(Slice(s, 1, Len(s) - 1)) ELSE s
\* str.strip()
Strip(s) == RStrip(LStrip(s))

\* str.split(sep) for a one-character separator
RECURSIVE Split(_, _)
Split(s, sep) ==
    IF \E i \in 1..Len(s) : Ch(s, i) = sep
    THEN LET i == CHOOSE k \in 1..Len(s) :
                      Ch(s, k) = sep /\ \A j \in 1..(k - 1) : Ch(s, j) /= sep
         IN  <<Slice(s, 1, i - 1)>> \o Split(Slice(s, i + 1, Len(s)), sep)
    ELSE <<s>>

\* str.replace(old, new) for one-character old and new
RECURSIVE Replace(_, _, _)
Replace(s, old, new) ==
    IF s = "" THEN ""
    ELSE (IF Head(s) = old THEN new ELSE Head(s)) \o Replace(Tail(s), old, new)

\* name in col
Contains(col, name) ==
    \E i \in 1..(Len(col) - Len(name) + 1) : Slice(col, i, i + Len(name) - 1) = name

DigitVal(c) == CHOOSE n \in 0..9 : Ch("0123456789", n + 1) = c
DigitStr(n) == Ch("0123456789", n + 1)

RECURSIVE DigitsValue(_)
DigitsValue(s) ==
    IF s = "" THEN 0
    ELSE DigitsValue(Slice(s, 1, Len(s) - 1)) * 10 + DigitVal(Ch(s, Len(s)))

RECURSIVE StripZeros(_)
StripZeros(s) == IF s /= "" /\ Head(s) = "0" THEN StripZeros(Tail(s)) ELSE s

RECURSIVE Pow10(_)
Pow10(n) == IF n = 0 THEN 1 ELSE 10 * Pow10(n - 1)

\* a text without its sign
Unsigned(s) == IF s /= "" /\ Head(s) \in {"+", "-"} THEN Tail(s) ELSE s
SignOf(s) == IF s /= "" /\ Head(s) = "-" THEN -1 ELSE 1

\* Whether the digits z (no leading zero) are a number above 2147483647, the
\* largest C int: the datetime constructor takes its arguments as C ints and
\* raises OverflowError for a larger one.
ExceedsCInt(z) ==
    \/ Len(z) > 10
    \/ /\ Len(z) = 10
       /\ \/ DigitsValue(Slice(z, 1, 9)) > 214748364
          \/ DigitsValue(Slice(z, 1, 9)) = 214748364 /\ DigitVal(Ch(z, 10)) > 7

\* int() of sign sg and digits u, z being u without its leading zeros.  ok: no
\* ValueError; big: the value is above the largest C int; v: the value otherwise.
IntOfDigits(sg, u, z) ==
    IF u = "" \/ ~AllDigits(u) THEN [ok |-> FALSE, big |-> FALSE, v |-> 0]
    ELSE IF ExceedsCInt(z) THEN [ok |-> TRUE, big |-> TRUE, v |-> 0]
    ELSE [ok |-> TRUE, big |-> FALSE, v |-> sg * DigitsValue(z)]

IntOfStripped(s) == IntOfDigits(SignOf(s), Unsigned(s), StripZeros(Unsigned(s)))

\* int(s) of a part of a split date
PyInt(s) == IntOfStripped(Strip(s))

\* ----------------------------------------------------------- Python float
\* k = "num": v is the value in units of 10^-FracDigits; "nan"; "inf" with v = 1
\* or -1; "big": a finite value of magnitude 100000 or more, sign in v; "err":
\* float() raised ValueError.
Scale == Pow10(FracDigits)
Num(v) == [k |-> "num", v |-> v]
FNaN == [k |-> "nan", v |-> 0]
FInf(sg) == [k |-> "inf", v |-> sg]
FErr == [k |-> "err", v |-> 0]
FromInt(n) == Num(n * Scale)

\* the digits after the point, cut or padded to FracDigits digits
FracPart(p) == Slice((IF Len(p) = 2 THEN p[2] ELSE "") \o "000000000", 1, FracDigits)

\* float() of sign sg and unsigned text u, p being u split at the point
FloatOfParts(sg, u, p) ==
    IF u \in {"nan", "NaN", "NAN"} THEN FNaN
    ELSE IF u \in {"inf", "Inf", "INF", "infinity", "Infinity", "INFINITY"} THEN FInf(sg)
    ELSE IF \/ Len(p) > 2
            \/ ~AllDigits(p[1])
            \/ (Len(p) = 2 /\ ~AllDigits(p[2]))
            \/ (p[1] = "" /\ (Len(p) = 1 \/ p[2] = ""))
         THEN FErr
    ELSE IF Len(StripZeros(p[1])) > 5 THEN [k |-> "big", v |-> sg]
    ELSE Num(sg * (DigitsValue(StripZeros(p[1])) * Scale + DigitsValue(FracPart(p))))

FloatOfStripped(s) == FloatOfParts(SignOf(s), Unsigned(s), Split(Unsigned(s), "."))

\* float(s) for a text written as [sign] digits [. digits], nan, inf or infinity
PyFloat(s) == FloatOfStripped(Strip(s))

\* a + b
FAdd(a, b) ==
    CASE a.k = "nan" \/ b.k = "nan" -> FNaN
      [] a.k = "inf" /\ b.k = "inf" -> IF a.v = b.v THEN a ELSE FNaN
      [] a.k = "inf" /\ b.k = "num" -> a
      [] a.k = "num" /\ b.k = "inf" -> b
      [] a.k = "num" /\ b.k = "num" -> Num(a.v + b.v)

\* abs(a)
FAbs(a) ==
    CASE a.k = "nan" -> FNaN
      [] a.k = "inf" -> FInf(1)
      [] a.k = "num" -> Num(IF a.v < 0 THEN -a.v ELSE a.v)

\* a > n for an integer n: false for nan
FGreaterInt(a, n) ==
    CASE a.k = "nan" -> FALSE
      [] a.k = "inf" -> a.v = 1
      [] a.k = "num" -> a.v > n * Scale

\* --------------------------------------------------------------- datetime
IsLeap(y) == y % 4 = 0 /\ (y % 100 /= 0 \/ y % 400 = 0)

DaysInMonth(y, m) ==
    IF m = 2 THEN (IF IsLeap(y) THEN 29 ELSE 28)
    ELSE IF m \in {4, 6, 9, 11} THEN 30 ELSE 31

RECURSIVE DaysBeforeMonth(_, _)
DaysBeforeMonth(y, m) ==
    IF m = 1 THEN 0 ELSE DaysBeforeMonth(y, m - 1) + DaysInMonth(y, m - 1)

DaysBeforeYear(y) ==
    (y - 1) * 365 + ((y - 1) \div 4) - ((y - 1) \div 100) + ((y - 1) \div 400)

\* datetime.toordinal(): 0001-01-01 is day 1
Ymd2Ord(y, m, d) == DaysBeforeYear(y) + DaysBeforeMonth(y, m) + d

\* A datetime: the calendar date and the time of day as a fraction of a day in
\* units of 10^-FracDigits (0 is midnight).
DateVal(y, m, d, f) == [kind |-> "date", y |-> y, m |-> m, d |-> d, frac |-> f, exc |-> ""]
NoneVal == [kind |-> "none", y |-> 0, m |-> 0, d |-> 0, frac |-> 0, exc |-> ""]
RaiseVal(e) == [kind |-> "raise", y |-> 0, m |-> 0, d |-> 0, frac |-> 0, exc |-> e]
\* a ValueError raised inside one of the try blocks: caught, the next format is tried
Caught == [kind |-> "caught", y |-> 0, m |-> 0, d |-> 0, frac |-> 0, exc |-> "ValueError"]

\* datetime.fromordinal(n) at midnight plus f: the inverse of Ymd2Ord
Ord2Date(n, f) ==
    LET n0   == n - 1
        n400 == n0 \div 146097
        r400 == n0 % 146097
        n100 == r400 \div 36524
        r100 == r400 % 36524
        n4   == r100 \div 1461
        r4   == r100 % 1461
        n1   == r4 \div 365
        r1   == r4 % 365
        year == n400 * 400 + 1 + n100 * 100 + n4 * 4 + n1
        leap == n1 = 3 /\ (n4 /= 24 \/ n100 = 3)
        m0   == (r1 + 50) \div 32
        pre0 == DaysBeforeMonth(IF leap THEN 2024 ELSE 2023, m0)
        month == IF pre0 > r1 THEN m0 - 1 ELSE m0
        pre  == DaysBeforeMonth(IF leap THEN 2024 ELSE 2023, month)
    IN  IF n1 = 4 \/ n100 = 4 THEN DateVal(year - 1, 12, 31, f)
        ELSE DateVal(year, month, r1 - pre + 1, f)

\* datetime(year, month, day) on the results of int()
DatetimeNew(yi, mi, di) ==
    IF yi.big \/ mi.big \/ di.big THEN RaiseVal("OverflowError")
    ELSE IF yi.v < 1 \/ yi.v > 9999 \/ mi.v < 1 \/ mi.v > 12
            \/ di.v < 1 \/ di.v > DaysInMonth(yi.v, mi.v)
         THEN Caught
    ELSE DateVal(yi.v, mi.v, di.v, 0)

\* map(int, parts), then datetime(year, month, day)
FromInts(yi, mi, di) ==
    IF ~yi.ok \/ ~mi.ok \/ ~di.ok THEN Caught ELSE DatetimeNew(yi, mi, di)

\* a, b, c = map(int, parts) with the year at iy, the month at im, the day at id
FromParts(parts, iy, im, id) ==
    IF Len(parts) /= 3 THEN Caught
    ELSE FromInts(PyInt(parts[iy]), PyInt(parts[im]), PyInt(parts[id]))

\* ^\d{1,2}<sep>\d{1,2}<sep>\d{4}$
ThreeRuns(p) ==
    Len(p) = 3 /\ DigitRun(p[1], 1, 2) /\ DigitRun(p[2], 1, 2) /\ DigitRun(p[3], 4, 4)
MatchDMY(s, sep) == ThreeRuns(Split(s, sep))

\* ^\d{4}-\d{1,2}-\d{1,2}  (a prefix: the pattern has no $)
MatchISO(s) ==
    /\ DigitRun(Slice(s, 1, 4), 4, 4)
    /\ Ch(s, 5) = "-"
    /\ \E n \in {1, 2} :
          /\ DigitRun(Slice(s, 6, 5 + n), n, n)
          /\ Ch(s, 6 + n) = "-"
          /\ DigitRun(Ch(s, 7 + n), 1, 1)

EpochOrd == Ymd2Ord(1899, 12, 30)

\* SerialDate counting from 1899-12-31.
SerialDateShifted(x) ==
    IF x.k = "num" /\ 0 < x.v /\ x.v < 50000 * Scale
    THEN Ord2Date(EpochOrd + 1 + (x.v \div Scale), x.v % Scale)
    ELSE NoneVal
\* 0 < excel_num < 50000; datetime(1899, 12, 30) + timedelta(days=excel_num)
SerialDate(x) ==
    IF x.k = "num" /\ 0 < x.v /\ x.v < 50000 * Scale
    THEN Ord2Date(EpochOrd + (x.v \div Scale), x.v % Scale)
    ELSE NoneVal

\* excel_num = float(str_date), ValueError passed over
FromSerial(s) == SerialDate(PyFloat(s))

Sentinels == {"", "NULL", "null", "NaN", "Invalid Date"}

\* TryFormats reading the slash format as month/day/year.
TryFormatsMDY(s) ==
    IF MatchDMY(s, "/") THEN FromParts(Split(s, "/"), 3, 1, 2)
    ELSE IF MatchDMY(s, "-") THEN FromParts(Split(s, "-"), 3, 2, 1)
    ELSE IF MatchISO(s) THEN FromParts(Split(Split(s, " ")[1], "-"), 1, 2, 3)
    ELSE Caught

\* The if / elif / elif chain of parse_date: the first pattern that matches is
\* the only one tried.
TryFormats(s) ==
    IF MatchDMY(s, "/") THEN FromParts(Split(s, "/"), 3, 2, 1)
    ELSE IF MatchDMY(s, "-") THEN FromParts(Split(s, "-"), 3, 2, 1)
    ELSE IF MatchISO(s) THEN FromParts(Split(Split(s, " ")[1], "-"), 1, 2, 3)
    ELSE Caught

\* what parse_date does once no format gave a date: r is the outcome of the chain
AfterFormats(s, r) == IF r.kind = "caught" THEN FromSerial(s) ELSE r

ParseStripped(s) == AfterFormats(s, TryFormats(s))

ParseDate(c) ==
    IF IsNa(c) \/ c.s \in Sentinels THEN NoneVal ELSE ParseStripped(Strip(c.s))

\* dt_val.strftime('%m/%Y')
TwoDigits(n) == DigitStr(n \div 10) \o DigitStr(n % 10)
FourDigits(n) == TwoDigits(n \div 100) \o TwoDigits(n % 100)
MesAno(dt) == TwoDigits(dt.m) \o "/" \o FourDigits(dt.y)

\* self.hoje: the day of the run at midnight.  The run modelled is one of
\* 15 January 2024.
Hoje == DateVal(2024, 1, 15, 0)

\* (dt_val - self.hoje).days: timedelta keeps the time of day in its seconds, so
\* .days is the difference of the two calendar days
DiasRestantes(dt) == Ymd2Ord(dt.y, dt.m, dt.d) - Ymd2Ord(Hoje.y, Hoje.m, Hoje.d)

\* ----------------------------------------------------------- _find_column
\* None.  Headers are upper-cased by load_data, so no header is this text.
NoCol == "None"

Range(f) == {f[i] : i \in DOMAIN f}

\* the first element of columns that is in the set hits, None if there is none
FirstIn(columns, hits) ==
    IF \E i \in 1..Len(columns) : columns[i] \in hits
    THEN columns[CHOOSE i \in 1..Len(columns) :
                     columns[i] \in hits /\ \A j \in 1..(i - 1) : columns[j] \notin hits]
    ELSE NoCol

\* FindColumn with one pass: the first header that equals or contains a name.
FindColumnOnePass(columns, possible_names) ==
    FirstIn(columns, {col \in Range(columns) :
                         \E k \in 1..Len(possible_names) : Contains(col, possible_names[k])})

\* lines 294-305: the first header equal to a name, else the first one containing one
FindColumn(columns, possible_names) ==
    LET exact   == {col \in Range(columns) : col \in Range(possible_names)}
        partial == {col \in Range(columns) :
                       \E k \in 1..Len(possible_names) : Contains(col, possible_names[k])}
    IN  IF FirstIn(columns, exact) /= NoCol THEN FirstIn(columns, exact)
        ELSE FirstIn(columns, partial)

\* The entries of col_mapping that the aggregation computes with.  The thirteen
\* location and packaging entries (cod_endereco .. est) are resolved the same way
\* and only copied into the line item.
ColMapping(columns) ==
    [qt         |-> FindColumn(columns, <<"QT", "QUANTIDADE", "QUANTITY", "QTD">>),
     cod_prod   |-> FindColumn(columns, <<"CODPROD", "COD_PROD", "PRODUTO", "CODIGO", "COD">>),
     descricao  |-> FindColumn(columns, <<"DESCRICAO", "PRODUTO", "NOME", "DESCR">>),
     dt_val     |-> FindColumn(columns, <<"DTVAL", "VALIDADE", "VENCIMENTO", "DATA">>),
     peso       |-> FindColumn(columns, <<"PESOLIQUN", "PESO", "PESO_LIQUIDO">>),
     cod_fornec |-> FindColumn(columns, <<"CODFORNEC", "FORNECEDOR_COD", "COD_FORNECEDOR">>),
     fornecedor |-> FindColumn(columns, <<"FORNECEDOR", "FORNEC", "FORNECEDOR_NOME">>)]

\* ------------------------------------------------------------ input tables
\* Header rows as load_data leaves them (upper-cased, stripped).
FullHeaders == <<"CODPROD", "DESCRICAO", "QT", "DTVAL", "PESOLIQUN", "CODFORNEC", "FORNECEDOR">>
MandatoryHeaders == <<"CODPROD", "DTVAL">>
SubstringHeaders == <<"COD_PRODUTO", "DATA_VALIDADE", "QTD_TOTAL">>
NoDateHeaders == <<"CODPROD", "QT", "FORNECEDOR">>
NoCodeHeaders == <<"DTVAL", "QT", "DESCRICAO">>
HeaderLists ==
    {FullHeaders, MandatoryHeaders, SubstringHeaders, NoDateHeaders, NoCodeHeaders}

\* What a column of the tables above holds.
FieldOf(h) ==
    CASE h \in {"CODPROD", "COD_PRODUTO"} -> "cod"
      [] h = "DESCRICAO" -> "desc"
      [] h \in {"QT", "QTD_TOTAL"} -> "qt"
      [] h \in {"DTVAL", "DATA_VALIDADE"} -> "dt"
      [] h = "PESOLIQUN" -> "peso"
      [] h = "CODFORNEC" -> "codf"
      [] h = "FORNECEDOR" -> "forn"

Line(cod, desc, dt, qt, forn, codf, peso) ==
    [cod |-> cod, desc |-> desc, dt |-> dt, qt |-> qt, forn |-> forn, codf |-> codf,
     peso |-> peso]

\* Days remaining on 15 January 2024: 14/01/2024 -1, 2024-01-15 0, 14-02-2024 30,
\* 15/02/2024 31, serial 45366 (15/03/2024) 60, 16/03/2024 61.
Lines ==
    {Line(NA, Txt("SEM CODIGO"), Txt("14/01/2024"), Txt("1"), Txt("ACME"), Txt("F1"), Txt("1,5")),
     Line(Txt("  "), Txt("EM BRANCO"), Txt("14/01/2024"), Txt("1"), Txt("ACME"), Txt("F1"), Txt("1,5"))}
    \cup {Line(Txt("P1"), Txt("ARROZ"), Txt(d), Txt("10"), Txt("ACME"), Txt("F1"), Txt("1,5")) :
            d \in {"14/01/2024", "2024-01-15 00:00:00", "14-02-2024", "15/02/2024", "45366",
                   "16/03/2024", "32/01/2024", "2024-01-99999999999"}}
    \cup {Line(Txt("P2"), Txt("FEIJAO"), Txt("14/01/2024"), Txt("2,5"), NA, NA, Txt("0,5")),
          Line(Txt("P2"), NA, Txt("15/03/2024"), NA, Txt("BETA"), Txt("F2"), NA),
          Line(Txt("P2"), Txt("FEIJAO"), Txt("16/03/2024"), Txt("abc"), Txt("BETA"), Txt("F2"), Txt("0,5")),
          Line(Txt("P2"), Txt("FEIJAO"), Txt("14-02-2024"), Txt("-3"), Txt("BETA"), Txt("F2"), Txt("0,5")),
          Line(Txt("P2"), Txt("FEIJAO"), Txt("20/01/2024"), Txt("150,5"), Txt("BETA"), Txt("F2"), Txt("0,5"))}

\* The rows a table with these headers can hold: a mapping from header to cell.
RowsOf(columns) == {[h \in Range(columns) |-> l[FieldOf(h)]] : l \in Lines}

\* ------------------------------------------------- arguments of parse_date
\* How a text handed to parse_date is written.  shape "slash": d/m/y; "dash":
\* d-m-y; "iso": y-m-d followed by tail; "serial": the number sign * (whole +
\* frac / 1000), whole in y, sign in d, frac in m; "text": tail as it is; "na": a
\* missing value.  pad writes day and month with two digits (a serial without
\* fraction with a trailing ".0").
Gen(shape, d, m, y, pad, tail) ==
    [shape |-> shape, d |-> d, m |-> m, y |-> y, pad |-> pad, tail |-> tail]

RECURSIVE IntText(_)
IntText(n) == IF n < 10 THEN DigitStr(n) ELSE IntText(n \div 10) \o DigitStr(n % 10)

DayText(n, pad) == IF pad \/ n >= 10 THEN TwoDigits(n) ELSE DigitStr(n)

FracText(f, pad) ==
    CASE f = 0 -> IF pad THEN ".0" ELSE ""
      [] f = 250 -> ".25"
      [] f = 500 -> ".5"
      [] f = 999 -> ".999"

GenText(g) ==
    CASE g.shape = "slash" ->
             DayText(g.d, g.pad) \o "/" \o DayText(g.m, g.pad) \o "/" \o FourDigits(g.y)
      [] g.shape = "dash" ->
             DayText(g.d, g.pad) \o "-" \o DayText(g.m, g.pad) \o "-" \o FourDigits(g.y)
      [] g.shape = "iso" ->
             FourDigits(g.y) \o "-" \o DayText(g.m, g.pad) \o "-" \o DayText(g.d, g.pad)
                 \o g.tail
      [] g.shape = "serial" ->
             (IF g.d < 0 THEN "-" ELSE "") \o IntText(g.y) \o FracText(g.m, g.pad)
      [] g.shape = "text" -> g.tail

GenCell(g) == IF g.shape = "na" THEN NA ELSE Txt(GenText(g))

GenYears == {0, 1, 2023, 2024, 9999}
TimeTails == {" 10:30:00", " 00:00:00.000"}
JunkTails == {"T10:30:00", "-7"}
SerialWholes == {0, 1, 2, 59, 60, 61, 45000, 45366, 49999, 50000, 50001, 99999}
SerialFracs == {0, 250, 500, 999}
OtherTexts ==
    Sentinels \cup
    {"abc", "nan", "inf", "-inf", "  ", " NULL", "12/2024", "1/2/24", "001/01/2024",
     "2024/01/15", "15.01.2024", " 14/01/2024 ", "14/01/2024 10:30", "1.2.3", "+5",
     "2024-01-99999999999", "2024-01-2147483647", "2024-01-2147483648",
     "2024-01-15 ", "24-01-15"}

GenSet ==
    {Gen(sh, d, m, y, pad, "") :
        sh \in {"slash", "dash", "iso"}, d \in 0..MaxDay, m \in 0..MaxMonth,
        y \in GenYears, pad \in BOOLEAN}
    \cup {Gen("iso", d, m, y, TRUE, tl) :
        d \in 0..MaxDay, m \in 0..MaxMonth, y \in GenYears, tl \in TimeTails \cup JunkTails}
    \cup {Gen("serial", sg, f, w, pad, "") :
        sg \in {-1, 1}, f \in SerialFracs, w \in SerialWholes, pad \in BOOLEAN}
    \cup {Gen("text", 0, 0, 0, FALSE, tx) : tx \in OtherTexts}
    \cup {Gen("na", 0, 0, 0, FALSE, "")}

\* ------------------------------------------------------------------- state
VARIABLES
    pc,             \* where process_data is: "start", "loop", "done", "raised"
    columns,        \* df.columns
    nrows,          \* len(df)
    rows,           \* the rows df.iterrows() has yielded so far
    col_mapping,    \* col_mapping
    produtos,       \* produtos: a dict, kept in insertion order
    estatisticas,   \* estatisticas
    result,         \* <<the dict returned>>, or <<>> while nothing is returned
    err,            \* the exception process_data raised, "" if none
    ppc,            \* where a lone parse_date call is: "idle", "call", "ret"
    dateGen,        \* how the argument of that call was written
    dateIn,         \* the argument of that call
    dateOut,        \* what that call returned or raised
    workbook,       \* <<the workbook export_to_excel wrote>>, <<>> before the export
    find_pc,        \* where a lone _find_column call is: "idle", "call", "ret"
    find_columns,   \* its argument columns
    find_names,     \* its argument possible_names
    find_out,       \* what it returned
    uploaded_file,  \* the file in the uploader widget, NoFile if there is none
    analysis,       \* st.session_state.analysis: <<>> for None, else <<the dict>>
    displayed,      \* what the last script run displayed: <<>> or <<[analysis, filename]>>
    error,          \* the st.error message of the last script run, "" if none
    button,         \* whether the last script run drew the reprocess button
    processed,      \* whether the last script run called process_uploaded_file
    tmp_files       \* the temporary files on disk

procVars == <<pc, columns, nrows, rows, col_mapping, produtos, estatisticas, result, err,
              workbook>>
parseVars == <<ppc, dateGen, dateIn, dateOut>>
findVars == <<find_pc, find_columns, find_names, find_out>>
appVars == <<uploaded_file, analysis, displayed, error, button, processed, tmp_files>>
vars == <<pc, columns, nrows, rows, col_mapping, produtos, estatisticas, result, err,
          workbook, ppc, dateGen, dateIn, dateOut, find_pc, find_columns, find_names,
          find_out, uploaded_file, analysis, displayed, error, button, processed, tmp_files>>

\* --------------------------------------------------- process_data: one row
\* row[col] if col else default
CellOr(row, col, default) == IF col /= NoCol THEN row[col] ELSE default

\* pd.isna(cod_prod) or str(cod_prod).strip() == ''
CodigoVazio(cod_prod) == IsNa(cod_prod) \/ Strip(Str(cod_prod)) = ""

\* float(str(qt_str).replace(',', '.')) if qt_str else 0, and 0 on ValueError
ConverterQuantidade(qt_str) ==
    IF Truthy(qt_str)
    THEN LET f == PyFloat(Replace(Str(qt_str), ",", "."))
         IN  IF f.k = "err" THEN FromInt(0) ELSE f
    ELSE FromInt(0)

\* float('inf')
Inf == [inf |-> TRUE, v |-> 0]
Fin(n) == [inf |-> FALSE, v |-> n]
\* dias_restantes < menor_dias_restantes
MenorQue(dias, menor) == menor.inf \/ dias < menor.v

IndexOfCod(ps, cod_prod) ==
    IF \E i \in 1..Len(ps) : ps[i].cod_prod = cod_prod
    THEN CHOOSE i \in 1..Len(ps) : ps[i].cod_prod = cod_prod
    ELSE 0

IndexOfMes(venc, mes_ano) ==
    IF \E i \in 1..Len(venc) : venc[i].mes_ano = mes_ano
    THEN CHOOSE i \in 1..Len(venc) : venc[i].mes_ano = mes_ano
    ELSE 0

NovoProduto(cm, row, cod_prod, qt) ==
    [cod_prod             |-> cod_prod,
     nome                 |-> CellOr(row, cm.descricao, Txt("Produto " \o Str(cod_prod))),
     fornecedor           |-> CellOr(row, cm.fornecedor, Txt("Sem fornecedor")),
     cod_fornec           |-> CellOr(row, cm.cod_fornec, Txt("")),
     peso_liqun           |-> CellOr(row, cm.peso, Txt("")),
     vencimentos_por_mes  |-> <<>>,
     quantidade_total     |-> FromInt(0),
     menor_dias_restantes |-> Inf,
     quantidade_original  |-> qt,
     itens_detalhados     |-> <<>>]

ItemDetalhado(qt, dt_val, dias) ==
    [quantidade |-> qt, data_validade |-> dt_val, dias_restantes |-> dias]

\* the month bucket of the row: created with the row's days remaining when the
\* key is new, then its quantity grows by qt
AgruparPorMes(venc, mes_ano, qt, dias) ==
    LET v1 == IF IndexOfMes(venc, mes_ano) = 0
              THEN Append(venc, [mes_ano |-> mes_ano, quantidade |-> FromInt(0),
                                 dias_restantes |-> dias])
              ELSE venc
    IN  [v1 EXCEPT ![IndexOfMes(v1, mes_ano)].quantidade = FAdd(@, qt)]

\* AtualizarMenor keeping the days remaining of the latest row.
AtualizarMenorUltimo(dias, menor) == Fin(dias)

\* lines 224-225
AtualizarMenor(dias, menor) == IF MenorQue(dias, menor) THEN Fin(dias) ELSE menor

\* lines 190-225: product i takes the row
AdicionarItem(ps, i, qt, dt_val, dias) ==
    [ps EXCEPT ![i] =
        [@ EXCEPT !.itens_detalhados = Append(@, ItemDetalhado(qt, dt_val, dias)),
                  !.vencimentos_por_mes = AgruparPorMes(@, MesAno(dt_val), qt, dias),
                  !.quantidade_total = FAdd(@, qt),
                  !.menor_dias_restantes = AtualizarMenor(dias, @)]]

\* lines 176-188: the product of the row, created when its code is new
ComProduto(ps, cm, row, cod_prod, qt) ==
    IF IndexOfCod(ps, cod_prod) = 0
    THEN Append(ps, NovoProduto(cm, row, cod_prod, qt))
    ELSE ps

AcumularEm(ps, cod_prod, qt, dt_val) ==
    AdicionarItem(ps, IndexOfCod(ps, cod_prod), qt, dt_val, DiasRestantes(dt_val))

\* lines 172-225: the products after a row with a code and a date
Acumular(ps, cm, row, cod_prod, qt, dt_val) ==
    AcumularEm(ComProduto(ps, cm, row, cod_prod, qt), cod_prod, qt, dt_val)

\* What the body of the loop does with a row: "vazio" (no product code),
\* "excecao" (parse_date raised, the except clause of the loop caught it),
\* "data_invalida" (parse_date returned None), "ok".
Desfecho(cod_prod, r) ==
    IF CodigoVazio(cod_prod) THEN "vazio"
    ELSE IF r.kind = "raise" THEN "excecao"
    ELSE IF r.kind = "none" THEN "data_invalida"
    ELSE "ok"

\* ContarLinha without the count of the except handler.
ContarLinhaSemExcecao(est, desfecho) ==
    [est EXCEPT
        !.linhas_processadas = IF desfecho = "ok" THEN @ + 1 ELSE @,
        !.linhas_ignoradas = IF desfecho \in {"vazio", "data_invalida"} THEN @ + 1 ELSE @,
        !.datas_invalidas = IF desfecho = "data_invalida" THEN @ + 1 ELSE @]

\* lines 156, 168-169, 227, 231: the counters after a row
ContarLinha(est, desfecho) ==
    [est EXCEPT
        !.linhas_processadas = IF desfecho = "ok" THEN @ + 1 ELSE @,
        !.linhas_ignoradas = IF desfecho /= "ok" THEN @ + 1 ELSE @,
        !.datas_invalidas = IF desfecho = "data_invalida" THEN @ + 1 ELSE @]

\* the products after the row
AposLinha(ps, cm, row, cod_prod, qt, r, desfecho) ==
    IF desfecho = "ok" THEN Acumular(ps, cm, row, cod_prod, qt, r) ELSE ps

\* ------------------------------------------------ process_data: after rows
Rank(menor) == IF menor < 0 THEN 0 ELSE IF menor <= 30 THEN 1 ELSE IF menor <= 60 THEN 2 ELSE 3

\* list.sort(key=...) is stable: an element moves behind those with a smaller
\* key and behind the earlier ones with an equal key.
\* key=lambda x: x['dias_restantes']
PorDias(a, b) == a.dias_restantes < b.dias_restantes
SortByDias(s) ==
    LET n == Len(s)
        pos(i) == 1 + Cardinality({j \in 1..n :
                          PorDias(s[j], s[i]) \/ (j < i /\ ~PorDias(s[i], s[j]))})
    IN  [k \in 1..n |-> s[CHOOSE i \in 1..n : pos(i) = k]]

\* key=lambda x: (rank of x['menor_dias_restantes'], x['menor_dias_restantes'])
PorCriticidade(a, b) ==
    \/ Rank(a.menor_dias_restantes) < Rank(b.menor_dias_restantes)
    \/ /\ Rank(a.menor_dias_restantes) = Rank(b.menor_dias_restantes)
       /\ a.menor_dias_restantes < b.menor_dias_restantes
\* SortByCriticidade leaving the list as it is.
SortByCriticidadeNone(s) == s

\* lines 276-281: produtos_lista.sort(key=...)
SortByCriticidade(s) ==
    LET n == Len(s)
        pos(i) == 1 + Cardinality({j \in 1..n :
                          PorCriticidade(s[j], s[i]) \/ (j < i /\ ~PorCriticidade(s[i], s[j]))})
    IN  [k \in 1..n |-> s[CHOOSE i \in 1..n : pos(i) = k]]

\* Criticidade with the bounds 30 and 60 excluded.
CriticidadeEstrita(menor) ==
    IF ~menor.inf /\ menor.v < 0 THEN "vencido"
    ELSE IF ~menor.inf /\ menor.v < 30 THEN "alta"
    ELSE IF ~menor.inf /\ menor.v < 60 THEN "média"
    ELSE "baixa"

\* lines 252-262; an infinite minimum compares greater than 60
Criticidade(menor) ==
    IF ~menor.inf /\ menor.v < 0 THEN "vencido"
    ELSE IF ~menor.inf /\ menor.v <= 30 THEN "alta"
    ELSE IF ~menor.inf /\ menor.v <= 60 THEN "média"
    ELSE "baixa"

\* lines 244-268: one product, finalized
Finalizar(p) ==
    [cod_prod             |-> p.cod_prod,
     nome                 |-> p.nome,
     fornecedor           |-> p.fornecedor,
     cod_fornec           |-> p.cod_fornec,
     peso_liqun           |-> p.peso_liqun,
     vencimentos_por_mes  |-> SortByDias(p.vencimentos_por_mes),
     quantidade_total     |-> p.quantidade_total,
     menor_dias_restantes |-> IF p.menor_dias_restantes.inf THEN 999
                              ELSE p.menor_dias_restantes.v,
     quantidade_original  |-> p.quantidade_original,
     itens_detalhados     |-> SortByDias(p.itens_detalhados),
     criticidade          |-> Criticidade(p.menor_dias_restantes)]

\* len([p for p in produtos if p['criticidade'] == c])
CountCriticidade(lista, c) == Cardinality({i \in 1..Len(lista) : lista[i].criticidade = c})

RECURSIVE SomaAbs(_, _)
SomaAbs(s, n) ==
    IF n = 0 THEN FromInt(0) ELSE FAdd(SomaAbs(s, n - 1), FAbs(s[n].quantidade_total))

Resumo(lista) ==
    [total_produtos            |-> Len(lista),
     total_itens               |-> SomaAbs(lista, Len(lista)),
     produtos_vencendo_30_dias |-> CountCriticidade(lista, "alta"),
     produtos_vencendo_60_dias |-> CountCriticidade(lista, "média"),
     produtos_vencidos         |-> CountCriticidade(lista, "vencido")]

\* Code points of the characters of the modelled texts, in increasing order.
Alphabet == " +,-./0123456789:ABCDEFGHIJKLMNOPQRSTUVWXYZ_abcdefghijklmnopqrstuvwxyz"
OrdOf(c) == CHOOSE i \in 1..Len(Alphabet) : Ch(Alphabet, i) = c

\* a < b on str
RECURSIVE StrLess(_, _)
StrLess(a, b) ==
    IF b = "" THEN FALSE
    ELSE IF a = "" THEN TRUE
    ELSE IF Head(a) = Head(b) THEN StrLess(Tail(a), Tail(b))
    ELSE OrdOf(Head(a)) < OrdOf(Head(b))

\* sorted(list(S)) for a set of str
RECURSIVE SortedStrs(_)
SortedStrs(S) ==
    IF S = {} THEN <<>>
    ELSE LET m == CHOOSE x \in S : \A y \in S \ {x} : StrLess(x, y)
         IN  <<m>> \o SortedStrs(S \ {m})

\* _extrair_filtros.  The supplier is added as it is, the other three through
\* str(): sorted() of a list holding both a str and the float NaN raises TypeError.
Fornecedores(lista) ==
    {lista[i].fornecedor : i \in {j \in 1..Len(lista) : Truthy(lista[j].fornecedor)}}
\* {str(p[campo]) for p in produtos if p[campo]}
StrsOf(lista, campo) ==
    {Str(lista[i][campo]) : i \in {j \in 1..Len(lista) : Truthy(lista[j][campo])}}

FiltrosRaises(lista) ==
    \E a \in Fornecedores(lista), b \in Fornecedores(lista) : a.na /\ ~b.na

ExtrairFiltros(lista) ==
    LET fs == Fornecedores(lista)
    IN  [fornecedores    |-> IF \E a \in fs : a.na THEN <<NA>>
                             ELSE [i \in 1..Cardinality(fs) |->
                                      Txt(SortedStrs({a.s : a \in fs})[i])],
         cods_fornecedor |-> SortedStrs(StrsOf(lista, "cod_fornec")),
         pesos_liquidos  |-> SortedStrs(StrsOf(lista, "peso_liqun")),
         cods_produto    |-> SortedStrs(StrsOf(lista, "cod_prod"))]

\* _gerar_recomendacoes: each message with the count it carries
Recomendacao(regra, n) == [regra |-> regra, n |-> n]
RegrasDisparadas(lista) ==
    LET idx == 1..Len(lista)
        vencidos == {i \in idx : lista[i].menor_dias_restantes < 0}
        grandes  == {i \in idx : /\ FGreaterInt(lista[i].quantidade_total, 100)
                                 /\ lista[i].criticidade /= "baixa"}
        Msg(regra, n) == IF n > 0 THEN <<Recomendacao(regra, n)>> ELSE <<>>
    IN  Msg("vencidos", Cardinality(vencidos))
        \o Msg("criticos", CountCriticidade(lista, "alta"))
        \o Msg("medios", CountCriticidade(lista, "média"))
        \o Msg("grandes_quantidades", Cardinality(grandes))

\* GerarRecomendacoes appending the control message whatever fired.
GerarRecomendacoesSempre(lista) ==
    RegrasDisparadas(lista) \o <<Recomendacao("sob_controle", 0)>>

\* lines 352-355: the control message when nothing fired
GerarRecomendacoes(lista) ==
    IF RegrasDisparadas(lista) = <<>> THEN <<Recomendacao("sob_controle", 0)>>
    ELSE RegrasDisparadas(lista)

ProdutosLista(ps) == SortByCriticidade([i \in 1..Len(ps) |-> Finalizar(ps[i])])

\* ----------------------------------------------------------------- actions
EstatisticasIniciais(n) ==
    [total_linhas |-> n, linhas_processadas |-> 0, linhas_ignoradas |-> 0,
     datas_invalidas |-> 0]

NoMapping == ColMapping(<<>>)

ParseIdle ==
    /\ ppc = "idle"
    /\ dateGen = Gen("na", 0, 0, 0, FALSE, "")
    /\ dateIn = NA
    /\ dateOut = NoneVal

ProcIdle ==
    /\ pc = "idle"
    /\ columns = <<>>
    /\ nrows = 0
    /\ rows = <<>>
    /\ col_mapping = NoMapping
    /\ produtos = <<>>
    /\ estatisticas = EstatisticasIniciais(0)
    /\ result = <<>>
    /\ err = ""
    /\ workbook = <<>>

FindIdle ==
    /\ find_pc = "idle"
    /\ find_columns = <<>>
    /\ find_names = <<>>
    /\ find_out = NoCol

NoFile == "None"

AppIdle ==
    /\ uploaded_file = NoFile
    /\ analysis = <<>>
    /\ displayed = <<>>
    /\ error = ""
    /\ button = FALSE
    /\ processed = FALSE
    /\ tmp_files = {}

\* process_data is called with a loaded table.
Init ==
    /\ pc = "start"
    /\ columns \in HeaderLists
    /\ nrows \in 0..MaxRows
    /\ rows = <<>>
    /\ col_mapping = NoMapping
    /\ produtos = <<>>
    /\ estatisticas = EstatisticasIniciais(0)
    /\ result = <<>>
    /\ err = ""
    /\ workbook = <<>>
    /\ ParseIdle
    /\ FindIdle
    /\ AppIdle

\* ResolveColumns without the check of the product-code column.
ResolveColumnsDtOnly ==
    /\ pc = "start"
    /\ col_mapping' = ColMapping(columns)
    /\ IF col_mapping'.dt_val = NoCol
       THEN /\ pc' = "raised"
            /\ err' = "ValueError: Coluna DTVAL não encontrada no arquivo"
            /\ UNCHANGED estatisticas
       ELSE /\ pc' = "loop"
            /\ err' = ""
            /\ estatisticas' = EstatisticasIniciais(nrows)
    /\ UNCHANGED <<columns, nrows, rows, produtos, result, workbook>>
    /\ UNCHANGED <<parseVars, findVars, appVars>>

\* lines 107-146: resolve the columns, fail on a missing mandatory one
ResolveColumns ==
    /\ pc = "start"
    /\ col_mapping' = ColMapping(columns)
    /\ IF col_mapping'.dt_val = NoCol
       THEN /\ pc' = "raised"
            /\ err' = "ValueError: Coluna DTVAL não encontrada no arquivo"
            /\ UNCHANGED estatisticas
       ELSE IF col_mapping'.cod_prod = NoCol
       THEN /\ pc' = "raised"
            /\ err' = "ValueError: Coluna CODPROD não encontrada no arquivo"
            /\ UNCHANGED estatisticas
       ELSE /\ pc' = "loop"
            /\ err' = ""
            /\ estatisticas' = EstatisticasIniciais(nrows)
    /\ UNCHANGED <<columns, nrows, rows, produtos, result, workbook>>
    /\ UNCHANGED <<parseVars, findVars, appVars>>

\* lines 150-231: the body of the loop for a row whose code cell is cod_prod,
\* whose quantity converts to qt and whose date parses to r
LoopBody(row, cod_prod, qt, r) ==
    /\ estatisticas' = ContarLinha(estatisticas, Desfecho(cod_prod, r))
    /\ produtos' = AposLinha(produtos, col_mapping, row, cod_prod, qt, r, Desfecho(cod_prod, r))

\* lines 148-231: one iteration of the loop over df.iterrows()
ProcessRow ==
    /\ pc = "loop"
    /\ Len(rows) < nrows
    /\ \E row \in RowsOf(columns) :
          /\ rows' = Append(rows, row)
          /\ LoopBody(row, row[col_mapping.cod_prod],
                      ConverterQuantidade(CellOr(row, col_mapping.qt, Txt("0"))),
                      ParseDate(row[col_mapping.dt_val]))
    /\ UNCHANGED <<pc, columns, nrows, col_mapping, result, err, workbook>>
    /\ UNCHANGED <<parseVars, findVars, appVars>>

\* lines 285-292: the dict process_data returns
ResultDict(lista, est, cm) ==
    [resumo            |-> Resumo(lista),
     produtos_criticos |-> lista,
     filtros           |-> ExtrairFiltros(lista),
     recomendacoes     |-> GerarRecomendacoes(lista),
     estatisticas      |-> est,
     colunas_mapeadas  |-> cm]

\* lines 285-292: the dict returned, unless building the filters raises
Return(lista) ==
    IF FiltrosRaises(lista)
    THEN /\ pc' = "raised"
         /\ err' = "TypeError: '<' not supported between instances of 'str' and 'float'"
         /\ result' = <<>>
    ELSE /\ pc' = "done"
         /\ err' = ""
         /\ result' = <<ResultDict(lista, estatisticas, col_mapping)>>

\* lines 233-292: classify, sort, build the filters and the recommendations
Finalize ==
    /\ pc = "loop"
    /\ Len(rows) = nrows
    /\ Return(ProdutosLista(produtos))
    /\ UNCHANGED <<columns, nrows, rows, col_mapping, produtos, estatisticas, workbook>>
    /\ UNCHANGED <<parseVars, findVars, appVars>>

\* ------------------------------------------------------- excel_exporter
\* str.upper() of a tier
UpperTier(criticidade) ==
    CASE criticidade = "vencido" -> "VENCIDO"
      [] criticidade = "alta" -> "ALTA"
      [] criticidade = "média" -> "MÉDIA"
      [] criticidade = "baixa" -> "BAIXA"

\* strftime('%d/%m/%Y')
DiaMesAno(dt) == TwoDigits(dt.d) \o "/" \o TwoDigits(dt.m) \o "/" \o FourDigits(dt.y)

\* if data: df.to_excel(...): a sheet is written only for a non-empty list
Sheet(data) == [present |-> data /= <<>>, rows |-> data]

\* the label/value pairs of the sheet 'Resumo', the time of the export left out
SummarySheet(an) ==
    [total_produtos            |-> an.resumo.total_produtos,
     total_itens               |-> an.resumo.total_itens,
     produtos_vencendo_30_dias |-> an.resumo.produtos_vencendo_30_dias,
     produtos_vencendo_60_dias |-> an.resumo.produtos_vencendo_60_dias,
     produtos_vencidos         |-> an.resumo.produtos_vencidos,
     total_linhas              |-> an.estatisticas.total_linhas,
     linhas_processadas        |-> an.estatisticas.linhas_processadas,
     linhas_ignoradas          |-> an.estatisticas.linhas_ignoradas,
     datas_invalidas           |-> an.estatisticas.datas_invalidas]

AllProductsRow(produto, venc) ==
    [codigo           |-> produto.cod_prod,
     produto          |-> produto.nome,
     fornecedor       |-> produto.fornecedor,
     cod_fornecedor   |-> produto.cod_fornec,
     peso_liquido     |-> produto.peso_liqun,
     mes_ano          |-> venc.mes_ano,
     quantidade       |-> venc.quantidade,
     dias_restantes   |-> venc.dias_restantes,
     criticidade      |-> UpperTier(produto.criticidade),
     quantidade_total |-> produto.quantidade_total]

\* one row per product and month bucket, for the first n products
RECURSIVE AllProductsData(_, _)
AllProductsData(lista, n) ==
    IF n = 0 THEN <<>>
    ELSE AllProductsData(lista, n - 1)
         \o [k \in 1..Len(lista[n].vencimentos_por_mes) |->
                AllProductsRow(lista[n], lista[n].vencimentos_por_mes[k])]

CriticalRow(produto, item) ==
    [codigo         |-> produto.cod_prod,
     produto        |-> produto.nome,
     fornecedor     |-> produto.fornecedor,
     cod_fornecedor |-> produto.cod_fornec,
     quantidade     |-> item.quantidade,
     data_validade  |-> DiaMesAno(item.data_validade),
     dias_restantes |-> item.dias_restantes,
     peso_liquido   |-> produto.peso_liqun,
     criticidade    |-> UpperTier(produto.criticidade)]

\* The tiers 'vencido', 'alta' and 'média'.
CriticalTiersWithMedium == {"vencido", "alta", "média"}

\* produto['criticidade'] in ['vencido', 'alta']
CriticalTiers == {"vencido", "alta"}

\* one row per line item of the critical products among the first n
RECURSIVE CriticalData(_, _)
CriticalData(lista, n) ==
    IF n = 0 THEN <<>>
    ELSE CriticalData(lista, n - 1)
         \o (IF lista[n].criticidade \in CriticalTiers
             THEN [k \in 1..Len(lista[n].itens_detalhados) |->
                      CriticalRow(lista[n], lista[n].itens_detalhados[k])]
             ELSE <<>>)

\* the three sheets export_to_excel writes for the analysis an
Workbook(an) ==
    [resumo   |-> SummarySheet(an),
     todos    |-> Sheet(AllProductsData(an.produtos_criticos, Len(an.produtos_criticos))),
     criticos |-> Sheet(CriticalData(an.produtos_criticos, Len(an.produtos_criticos)))]

\* export_to_excel(analysis) on the dict process_data returned
ExportToExcel ==
    /\ pc = "done"
    /\ workbook = <<>>
    /\ workbook' = <<Workbook(result[1])>>
    /\ UNCHANGED <<pc, columns, nrows, rows, col_mapping, produtos, estatisticas, result,
                   err>>
    /\ UNCHANGED <<parseVars, findVars, appVars>>

Next == ResolveColumns \/ ProcessRow \/ Finalize \/ ExportToExcel

Spec == Init /\ [][Next]_vars

\* ------------------------------------------ process_data as a function
\* What a call of process_data gives: an exception, or the dict.
Raised(e) == [raised |-> TRUE, err |-> e, result |-> <<>>]
Returned(d) == [raised |-> FALSE, err |-> "", result |-> <<d>>]

\* lines 150-231 for one row, on the pair of produtos and estatisticas
StepRowWith(st, cm, row, cod_prod, qt, r) ==
    [produtos     |-> AposLinha(st.produtos, cm, row, cod_prod, qt, r, Desfecho(cod_prod, r)),
     estatisticas |-> ContarLinha(st.estatisticas, Desfecho(cod_prod, r))]

StepRow(st, cm, row) ==
    StepRowWith(st, cm, row, row[cm.cod_prod],
                ConverterQuantidade(CellOr(row, cm.qt, Txt("0"))),
                ParseDate(row[cm.dt_val]))

\* lines 140-231: produtos and estatisticas after the first n rows of the table
RECURSIVE LoopState(_, _, _)
LoopState(cm, rs, n) ==
    IF n = 0 THEN [produtos |-> <<>>, estatisticas |-> EstatisticasIniciais(Len(rs))]
    ELSE StepRow(LoopState(cm, rs, n - 1), cm, rs[n])

\* lines 233-292
ReturnOf(lista, est, cm) ==
    IF FiltrosRaises(lista)
    THEN Raised("TypeError: '<' not supported between instances of 'str' and 'float'")
    ELSE Returned(ResultDict(lista, est, cm))

FinalizeOf(st, cm) == ReturnOf(ProdutosLista(st.produtos), st.estatisticas, cm)

\* lines 103-292 with the column mapping cm
ProcessDataWith(cm, rs) ==
    IF cm.dt_val = NoCol THEN Raised("ValueError: Coluna DTVAL não encontrada no arquivo")
    ELSE IF cm.cod_prod = NoCol
    THEN Raised("ValueError: Coluna CODPROD não encontrada no arquivo")
    ELSE FinalizeOf(LoopState(cm, rs, Len(rs)), cm)

\* process_data(df) for a table with the headers cols and the rows rs
ProcessData(cols, rs) == ProcessDataWith(ColMapping(cols), rs)

\* ------------------------------------------------- parse_date on its own
\* parse_date is about to be called with one argument.
InitParse ==
    /\ ProcIdle
    /\ ppc = "call"
    /\ dateGen \in GenSet
    /\ dateIn = GenCell(dateGen)
    /\ dateOut = NoneVal
    /\ FindIdle
    /\ AppIdle

\* lines 16-66: the call returns a datetime or None, or an exception leaves it
ParseDateCall ==
    /\ ppc = "call"
    /\ ppc' = "ret"
    /\ dateOut' = ParseDate(dateIn)
    /\ UNCHANGED <<dateGen, dateIn>>
    /\ UNCHANGED <<procVars, findVars, appVars>>

NextParse == ParseDateCall

SpecParse == InitParse /\ [][NextParse]_vars

\* ---------------------------------------------- _find_column on its own
MaxHeaders == 3
MaxNames == 2
FindHeaders == {"QT", "QTD_TOTAL", "A_COD", "COD", "DTVAL", ""}
FindNames == {"QT", "QTD", "COD"}

\* the sequences over S of length at most n
SeqsUpTo(S, n) == UNION {[1..k -> S] : k \in 0..n}

\* _find_column is about to be called with a header list and a candidate list.
InitFind ==
    /\ ProcIdle
    /\ ParseIdle
    /\ AppIdle
    /\ find_pc = "call"
    /\ find_columns \in SeqsUpTo(FindHeaders, MaxHeaders)
    /\ find_names \in SeqsUpTo(FindNames, MaxNames)
    /\ find_out = NoCol

\* lines 294-305
FindColumnCall ==
    /\ find_pc = "call"
    /\ find_pc' = "ret"
    /\ find_out' = FindColumn(find_columns, find_names)
    /\ UNCHANGED <<find_columns, find_names>>
    /\ UNCHANGED <<procVars, parseVars, appVars>>

NextFind == FindColumnCall

SpecFind == InitFind /\ [][NextFind]_vars

\* ------------------------------------------------------------------- app
LowerCase == "abcdefghijklmnopqrstuvwxyz"
UpperCase == "ABCDEFGHIJKLMNOPQRSTUVWXYZ"
IndexIn(s, c) ==
    IF \E i \in 1..Len(s) : Ch(s, i) = c THEN CHOOSE i \in 1..Len(s) : Ch(s, i) = c ELSE 0
UpperCh(c) == IF IndexIn(LowerCase, c) > 0 THEN Ch(UpperCase, IndexIn(LowerCase, c)) ELSE c
LowerCh(c) == IF IndexIn(UpperCase, c) > 0 THEN Ch(LowerCase, IndexIn(UpperCase, c)) ELSE c
\* str.upper() and str.lower()
RECURSIVE Upper(_)
Upper(s) == IF s = "" THEN "" ELSE UpperCh(Ch(s, 1)) \o Upper(Slice(s, 2, Len(s)))
RECURSIVE Lower(_)
Lower(s) == IF s = "" THEN "" ELSE LowerCh(Ch(s, 1)) \o Lower(Slice(s, 2, Len(s)))

\* detect_delimiter
DetectDelimiter(first_line) ==
    IF Contains(first_line, "|") THEN "|"
    ELSE IF Contains(first_line, ";") THEN ";"
    ELSE ","

\* uploaded_file.name.split('.')[-1].lower()
FileType(name) == Lower(Split(name, ".")[Len(Split(name, "."))])

\* An uploaded file: its name, whether pandas can read it, its header line (its
\* header cells for a workbook) and its data rows.
UploadedFile(name, readable, first_line, headers, lines) ==
    [name |-> name, readable |-> readable, first_line |-> first_line,
     headers |-> headers, lines |-> lines]

ArrozVencido == Line(Txt("P1"), Txt("ARROZ"), Txt("14/01/2024"), Txt("10"), Txt("ACME"), Txt("F1"), Txt("1,5"))
FeijaoBaixa == Line(Txt("P2"), Txt("FEIJAO"), Txt("16/03/2024"), Txt("2,5"), Txt("BETA"), Txt("F2"), Txt("0,5"))
FeijaoSemFornecedor == Line(Txt("P2"), Txt("FEIJAO"), Txt("14/01/2024"), Txt("2,5"), NA, NA, Txt("0,5"))

Files ==
    {UploadedFile("a.csv", TRUE, "codprod;dtval;qt", <<>>, <<ArrozVencido>>),
     UploadedFile("b.csv", TRUE, " CodProd | DtVal | Fornecedor ", <<>>,
                  <<FeijaoBaixa, ArrozVencido>>),
     UploadedFile("c.csv", TRUE, "qt,descricao,codprod", <<>>, <<ArrozVencido>>),
     UploadedFile("d.csv", FALSE, "", <<>>, <<>>),
     UploadedFile("e.XLSX", TRUE, "", <<"Cod_Produto", "Data_Validade ", "Qtd_Total">>,
                  <<FeijaoBaixa>>),
     UploadedFile("f.csv", TRUE, "codprod,dtval,fornecedor", <<>>,
                  <<ArrozVencido, FeijaoSemFornecedor>>),
     UploadedFile("g.csv", TRUE, "dtval,codprod", <<>>, <<>>),
     UploadedFile("h.xls", TRUE, "", <<"codprod", "dtval", "qt">>,
                  <<ArrozVencido, ArrozVencido>>),
     UploadedFile("i.csv", TRUE, "codprod,dtval,qt,descricao", <<>>,
                  <<FeijaoBaixa, FeijaoSemFornecedor>>),
     UploadedFile("j.csv", TRUE, "DTVAL|CODPROD|QT|PESOLIQUN", <<>>,
                  <<FeijaoSemFornecedor>>)}

FileNamed(name) == CHOOSE f \in Files : f.name = name

\* what load_data gives: an exception, or the table
Loaded(cols, rs) == [raised |-> FALSE, err |-> "", columns |-> cols, rows |-> rs]
LoadFailed(e) == [raised |-> TRUE, err |-> e, columns |-> <<>>, rows |-> <<>>]

\* the header cells pandas reads
RawHeaders(file) ==
    IF FileType(file.name) \in {"xlsx", "xls"} THEN file.headers
    ELSE Split(file.first_line, DetectDelimiter(file.first_line))

\* df.columns.str.upper().str.strip()
CleanHeaders(raw) == [i \in 1..Len(raw) |-> Strip(Upper(raw[i]))]

TableOf(cols, lines) ==
    Loaded(cols, [i \in 1..Len(lines) |-> [h \in Range(cols) |-> lines[i][FieldOf(h)]]])

\* load_data(tmp_path, file_type)
LoadData(file) ==
    IF ~file.readable THEN LoadFailed("Exception: arquivo ilegível")
    ELSE TableOf(CleanHeaders(RawHeaders(file)), file.lines)

\* lines 95-100: load_data, then process_data on the table
ProcessLoaded(l) == IF l.raised THEN Raised(l.err) ELSE ProcessData(l.columns, l.rows)
RunAnalysis(name) == ProcessLoaded(LoadData(FileNamed(name)))

\* st.session_state.analysis set to None when the attempt fails.
AnalysisAfterCleared(old, outcome) == outcome.result

\* line 106, reached only if nothing raised
AnalysisAfter(old, outcome) == IF outcome.raised THEN old ELSE outcome.result

\* line 117, the message without its leading symbol
ErrorAfter(outcome) ==
    IF outcome.raised THEN "Erro ao processar arquivo: " \o outcome.err ELSE ""

\* lines 81-83 and 118-121: the temporary file is written, and unlinked at the end
TmpPath(name) == "tmp." \o Split(name, ".")[Len(Split(name, "."))]
TmpAfter(tmp, name) == (tmp \cup {TmpPath(name)}) \ {TmpPath(name)}

\* lines 78-121
ProcessUploadedFile(name, outcome) ==
    /\ analysis' = AnalysisAfter(analysis, outcome)
    /\ error' = ErrorAfter(outcome)
    /\ tmp_files' = TmpAfter(tmp_files, name)
    /\ processed' = TRUE

NotProcessed ==
    /\ UNCHANGED <<analysis, tmp_files>>
    /\ error' = ""
    /\ processed' = FALSE

\* lines 57-76: one run of the script with the file name in the uploader (NoFile
\* if there is none) and the reprocess button pressed or not
Run(name, pressed) ==
    /\ uploaded_file' = name
    /\ button' = (name /= NoFile /\ analysis /= <<>>)
    /\ IF name /= NoFile /\ (analysis = <<>> \/ pressed)
       THEN ProcessUploadedFile(name, RunAnalysis(name))
       ELSE NotProcessed
    /\ displayed' = IF name /= NoFile /\ analysis' /= <<>>
                    THEN <<[analysis |-> analysis'[1], filename |-> name]>>
                    ELSE <<>>
    /\ UNCHANGED <<procVars, parseVars, findVars>>

\* the session starts: the script runs with no file in the uploader
InitApp ==
    /\ ProcIdle
    /\ ParseIdle
    /\ FindIdle
    /\ AppIdle

\* the user puts a file in the uploader
Upload == \E f \in Files : f.name /= uploaded_file /\ Run(f.name, FALSE)
\* the user removes the file
RemoveFile == uploaded_file /= NoFile /\ Run(NoFile, FALSE)
\* the user touches another widget
Rerun == Run(uploaded_file, FALSE)
\* the user presses the reprocess button the last run drew
Reprocess == button /\ Run(uploaded_file, TRUE)

NextApp == Upload \/ RemoveFile \/ Rerun \/ Reprocess

SpecApp == InitApp /\ [][NextApp]_vars

\* ================================================================== claims
\* ---------------------------------------------------------------- helpers
MinOf(S) == CHOOSE x \in S : \A y \in S : x <= y

\* the candidate names of the two mandatory fields
DtValNames == {"DTVAL", "VALIDADE", "VENCIMENTO", "DATA"}
CodProdNames == {"CODPROD", "COD_PROD", "PRODUTO", "CODIGO", "COD"}
\* no header equals or contains one of the names
NoHeaderFor(names) == \A h \in Range(columns), c \in names : ~Contains(h, c)
MandatoryUnresolved == NoHeaderFor(DtValNames) \/ NoHeaderFor(CodProdNames)
\* the table has the two mandatory columns and nothing else that resolves
OnlyMandatory ==
    /\ ~MandatoryUnresolved
    /\ \A f \in {"qt", "descricao", "peso", "cod_fornec", "fornecedor"} : col_mapping[f] = NoCol

\* the returned products
Lista == IF result = <<>> THEN <<>> ELSE result[1].produtos_criticos

\* the rows read so far that went into the product with this code cell, in order
RowsOfProduct(cod_prod) ==
    LET Goes(row) == /\ ~CodigoVazio(row[col_mapping.cod_prod])
                     /\ row[col_mapping.cod_prod] = cod_prod
                     /\ ParseDate(row[col_mapping.dt_val]).kind = "date"
    IN  SelectSeq(rows, Goes)

\* a == b: nan equals nothing, itself included
FEq(a, b) == a.k /= "nan" /\ b.k /= "nan" /\ a = b

\* math.isfinite(a)
FFinite(a) == a.k = "num"

RECURSIVE SumQuantidades(_, _)
SumQuantidades(itens, n) ==
    IF n = 0 THEN FromInt(0) ELSE FAdd(SumQuantidades(itens, n - 1), itens[n].quantidade)

\* the quantity the specification gives a row: the number in the cell with the
\* decimal comma read as a point, 0 when the cell holds no finite number
QuantidadeEsperada(row) ==
    LET c == CellOr(row, col_mapping.qt, Txt("0"))
        f == IF c.na THEN FErr ELSE PyFloat(Replace(c.s, ",", "."))
    IN  IF f.k = "num" THEN f ELSE FromInt(0)

\* ---------------------------------------------------------------------- C1
\* C1 (as claimed): when the two mandatory columns resolve, process_data never
\* raises, whatever the cells of the rows hold.
C1_NeverRaisesOnRows == ~MandatoryUnresolved => pc /= "raised"

\* ---------------------------------------------------------------------- C2
\* C2 (amended): when the expiration-date or the product-code field resolves to
\* no header, process_data raises a ValueError before any row is read and returns
\* nothing; when only these two resolve it never raises, every quantity is 0, the
\* supplier code and the weight are empty, the supplier is 'Sem fornecedor' and
\* the name is 'Produto <code>'.
C2_MandatoryColumns ==
    pc /= "start" =>
        /\ MandatoryUnresolved =>
              /\ pc = "raised"
              /\ err \in {"ValueError: Coluna DTVAL não encontrada no arquivo",
                          "ValueError: Coluna CODPROD não encontrada no arquivo"}
              /\ result = <<>> /\ rows = <<>> /\ produtos = <<>>
              /\ estatisticas = EstatisticasIniciais(0)
        /\ OnlyMandatory =>
              /\ pc /= "raised"
              /\ \A i \in 1..Len(produtos) :
                    /\ produtos[i].quantidade_total = FromInt(0)
                    /\ \A k \in 1..Len(produtos[i].itens_detalhados) :
                          produtos[i].itens_detalhados[k].quantidade = FromInt(0)
                    /\ produtos[i].cod_fornec = Txt("")
                    /\ produtos[i].peso_liqun = Txt("")
                    /\ produtos[i].fornecedor = Txt("Sem fornecedor")
                    /\ produtos[i].nome = Txt("Produto " \o produtos[i].cod_prod.s)

\* C2 (as claimed): the same, with every unresolved field of a product empty or
\* zero, the supplier and the name included.
C2_Original ==
    pc /= "start" =>
        /\ MandatoryUnresolved => pc = "raised" /\ result = <<>> /\ rows = <<>>
        /\ OnlyMandatory =>
              /\ pc /= "raised"
              /\ \A i \in 1..Len(produtos) :
                    /\ produtos[i].quantidade_total = FromInt(0)
                    /\ produtos[i].cod_fornec = Txt("")
                    /\ produtos[i].peso_liqun = Txt("")
                    /\ produtos[i].fornecedor = Txt("")
                    /\ produtos[i].nome = Txt("")

\* C2 witness: a table with only the two mandatory columns was processed to the
\* end with a product in it.
C2_Witness == OnlyMandatory /\ pc = "done" /\ Len(Lista) > 0

\* ---------------------------------------------------------------------- C3
TierOf(m) ==
    CASE m < 0 -> "vencido"
      [] m >= 0 /\ m <= 30 -> "alta"
      [] m >= 31 /\ m <= 60 -> "média"
      [] m >= 61 -> "baixa"

\* C3: every returned product has the tier of its minimum days remaining: below
\* 0 expired, 0..30 high, 31..60 medium, 61 and more low.
C3_TierByMinimumDays ==
    \A i \in 1..Len(Lista) : Lista[i].criticidade = TierOf(Lista[i].menor_dias_restantes)

\* C3 witness: a result holds a product at 30 days, high, and one at 31, medium.
C3_Witness ==
    /\ \E i \in 1..Len(Lista) :
          Lista[i].menor_dias_restantes = 30 /\ Lista[i].criticidade = "alta"
    /\ \E i \in 1..Len(Lista) :
          Lista[i].menor_dias_restantes = 31 /\ Lista[i].criticidade = "média"

\* ---------------------------------------------------------------------- C4
DiasDosItens(p) ==
    {p.itens_detalhados[k].dias_restantes : k \in 1..Len(p.itens_detalhados)}

\* C4: at every point of the loop and in the result, a product's minimum days
\* remaining is the least days remaining of its line items.
C4_MinimumDays ==
    /\ \A i \in 1..Len(produtos) :
          /\ DiasDosItens(produtos[i]) /= {}
          /\ produtos[i].menor_dias_restantes = Fin(MinOf(DiasDosItens(produtos[i])))
    /\ \A i \in 1..Len(Lista) :
          Lista[i].menor_dias_restantes = MinOf(DiasDosItens(Lista[i]))

\* C4 witness: a returned product has two line items, the later row being the
\* one further from expiration.
C4_Witness ==
    /\ pc = "done"
    /\ \E i \in 1..Len(produtos) :
          /\ Len(produtos[i].itens_detalhados) >= 2
          /\ produtos[i].itens_detalhados[1].dias_restantes
                < produtos[i].itens_detalhados[2].dias_restantes

\* ---------------------------------------------------------------------- C5
\* C5 (as claimed): the rows with one product code and a parseable date are in
\* one product with one line item each, and the product's total quantity equals
\* the sum of the quantities of its line items.
C5_OneProductTotalIsSum ==
    pc \in {"loop", "done"} =>
        /\ \A i, j \in 1..Len(produtos) :
              produtos[i].cod_prod = produtos[j].cod_prod => i = j
        /\ \A r \in 1..Len(rows) :
              Len(RowsOfProduct(rows[r][col_mapping.cod_prod])) > 0 =>
                  \E i \in 1..Len(produtos) :
                      produtos[i].cod_prod = rows[r][col_mapping.cod_prod]
        /\ \A i \in 1..Len(produtos) :
              /\ Len(produtos[i].itens_detalhados) = Len(RowsOfProduct(produtos[i].cod_prod))
              /\ FEq(produtos[i].quantidade_total,
                     SumQuantidades(produtos[i].itens_detalhados,
                                    Len(produtos[i].itens_detalhados)))

\* ---------------------------------------------------------------------- C6
\* the row the loop has just read
LastRow == rows'[Len(rows')]

\* a product code is returned only if one of its rows has a date
C6_OnlyDatedCodes ==
    \A i \in 1..Len(Lista) : Len(RowsOfProduct(Lista[i].cod_prod)) > 0

\* C6 (as claimed): a row with a product code whose date cannot be parsed adds
\* one to the invalid-date counter and one to the ignored counter and changes no
\* product; a code whose rows all have unparseable dates is not in the result.
C6_UnparseableRowSkipped ==
    /\ []C6_OnlyDatedCodes
    /\ [][(/\ pc = "loop"
           /\ Len(rows') = Len(rows) + 1
           /\ ~CodigoVazio(LastRow[col_mapping.cod_prod])
           /\ ParseDate(LastRow[col_mapping.dt_val]).kind /= "date")
          => /\ estatisticas'.datas_invalidas = estatisticas.datas_invalidas + 1
             /\ estatisticas'.linhas_ignoradas = estatisticas.linhas_ignoradas + 1
             /\ estatisticas'.linhas_processadas = estatisticas.linhas_processadas
             /\ produtos' = produtos]_vars

\* ---------------------------------------------------------------------- C7
\* C7 (as claimed): a row with a product code and a parseable date gives a line
\* item whose quantity is the number in the quantity cell, 0 when the cell holds
\* no number, and the total quantity of the product stays finite.
C7_QuantityOrZero ==
    pc \in {"loop", "done"} =>
        \A i \in 1..Len(produtos) :
            /\ Len(produtos[i].itens_detalhados) = Len(RowsOfProduct(produtos[i].cod_prod))
            /\ \A k \in 1..Len(produtos[i].itens_detalhados) :
                  produtos[i].itens_detalhados[k].quantidade
                      = QuantidadeEsperada(RowsOfProduct(produtos[i].cod_prod)[k])
            /\ FFinite(produtos[i].quantidade_total)

\* ---------------------------------------------------------------------- C8
CalendarDays(m, y) ==
    CASE m \in {1, 3, 5, 7, 8, 10, 12} -> 31
      [] m \in {4, 6, 9, 11} -> 30
      [] m = 2 -> IF (y % 4 = 0 /\ y % 100 /= 0) \/ y % 400 = 0 THEN 29 ELSE 28
      [] OTHER -> 0
CalendarValid(g) == g.d >= 1 /\ g.d <= CalendarDays(g.m, g.y)

\* D/M/YYYY, D-M-YYYY, or YYYY-M-D alone or followed by a space and a time
DateShaped(g) ==
    g.shape \in {"slash", "dash"} \/ (g.shape = "iso" /\ g.tail \in {""} \cup TimeTails)

\* C8 (amended): a text of one of the three date shapes gives exactly the date it
\* writes (day/month/year, or year/month/day for the year-first shape) when day
\* and month are valid in the calendar and the year is 0001..9999, and gives
\* None otherwise.
C8_DateShapes ==
    (ppc = "ret" /\ DateShaped(dateGen)) =>
        dateOut = IF CalendarValid(dateGen) /\ dateGen.y >= 1
                  THEN DateVal(dateGen.y, dateGen.m, dateGen.d, 0)
                  ELSE NoneVal

\* C8 (as claimed): the same for every year.
C8_Original ==
    (ppc = "ret" /\ DateShaped(dateGen)) =>
        dateOut = IF CalendarValid(dateGen)
                  THEN DateVal(dateGen.y, dateGen.m, dateGen.d, 0)
                  ELSE NoneVal

\* C8 witness: 29/2/2024 was parsed to 29 February 2024.
C8_Witness ==
    /\ ppc = "ret" /\ dateGen.shape = "slash" /\ ~dateGen.pad
    /\ dateGen.d = 29 /\ dateGen.m = 2 /\ dateGen.y = 2024
    /\ dateOut = DateVal(2024, 2, 29, 0)

\* ---------------------------------------------------------------------- C9
\* C9 (as claimed): parse_date returns a date at midnight or None and never
\* raises; a missing value and the sentinel texts give None.
C9_DateAtMidnightOrNone ==
    ppc = "ret" =>
        /\ dateOut.kind = "none" \/ (dateOut.kind = "date" /\ dateOut.frac = 0)
        /\ (dateGen.shape = "na"
            \/ (dateGen.shape = "text"
                /\ dateGen.tail \in {"", "NULL", "null", "NaN", "Invalid Date"}))
           => dateOut.kind = "none"

\* --------------------------------------------------------------------- C10
\* the serial written by g, in thousandths
SerialMilli(g) == g.d * (g.y * 1000 + g.m)

\* C10: a text that is a number n gives 1899-12-30 plus n days exactly when
\* 0 < n < 50000, and None otherwise; 1 gives 1899-12-31.
C10_SerialDates ==
    (ppc = "ret" /\ dateGen.shape = "serial") =>
        /\ IF 0 < SerialMilli(dateGen) /\ SerialMilli(dateGen) < 50000 * 1000
           THEN /\ dateOut.kind = "date"
                /\ Ymd2Ord(dateOut.y, dateOut.m, dateOut.d)
                      = Ymd2Ord(1899, 12, 30) + dateGen.y
                /\ dateOut.frac * 1000 = dateGen.m * Scale
           ELSE dateOut = NoneVal
        /\ (dateGen.d = 1 /\ dateGen.y = 1 /\ dateGen.m = 0)
              => dateOut = DateVal(1899, 12, 31, 0)

\* C10 witness: the serial 45000 was parsed to 15 March 2023.
C10_Witness ==
    /\ ppc = "ret" /\ dateGen.shape = "serial"
    /\ dateGen.d = 1 /\ dateGen.y = 45000 /\ dateGen.m = 0
    /\ dateOut = DateVal(2023, 3, 15, 0)

\* --------------------------------------------------------------------- C11
\* the positions of the headers equal to a candidate, and of those containing one
ExactAt == {i \in 1..Len(find_columns) : \E k \in 1..Len(find_names) :
                find_columns[i] = find_names[k]}
PartialAt == {i \in 1..Len(find_columns) : \E k \in 1..Len(find_names) :
                Contains(find_columns[i], find_names[k])}

\* C11: _find_column returns the first header equal to a candidate if there is
\* one, else the first header containing a candidate, else None; what it returns
\* is None or one of the headers.
C11_ExactThenSubstring ==
    find_pc = "ret" =>
        /\ find_out = IF ExactAt /= {} THEN find_columns[MinOf(ExactAt)]
                      ELSE IF PartialAt /= {} THEN find_columns[MinOf(PartialAt)]
                      ELSE NoCol
        /\ find_out = NoCol \/ find_out \in Range(find_columns)

\* C11 witness: QT was returned although QTD_TOTAL, which contains QT, is first.
C11_Witness ==
    /\ find_pc = "ret"
    /\ find_columns = <<"QTD_TOTAL", "QT">>
    /\ find_names = <<"QT">>
    /\ find_out = "QT"

\* --------------------------------------------------------------------- C12
TierRank(criticidade) ==
    CASE criticidade = "vencido" -> 0
      [] criticidade = "alta" -> 1
      [] criticidade = "média" -> 2
      [] criticidade = "baixa" -> 3

\* C12: in a result, of two adjacent products the first has the lower tier rank,
\* or the same rank and not more days remaining; the rank the sort computes from
\* the days is the rank of the stored tier.
C12_OrderedByTierThenDays ==
    /\ \A i \in 1..(Len(Lista) - 1) :
          \/ TierRank(Lista[i].criticidade) < TierRank(Lista[i + 1].criticidade)
          \/ /\ TierRank(Lista[i].criticidade) = TierRank(Lista[i + 1].criticidade)
             /\ Lista[i].menor_dias_restantes <= Lista[i + 1].menor_dias_restantes
    /\ \A i \in 1..Len(Lista) :
          Rank(Lista[i].menor_dias_restantes) = TierRank(Lista[i].criticidade)

\* C12 witness: the product of the later rows comes first in the result, being
\* in a more urgent tier.
C12_Witness ==
    /\ pc = "done"
    /\ Len(Lista) = 2
    /\ Lista[1].cod_prod = produtos[2].cod_prod
    /\ TierRank(Lista[1].criticidade) < TierRank(Lista[2].criticidade)

\* --------------------------------------------------------------------- C13
Recs == IF result = <<>> THEN <<>> ELSE result[1].recomendacoes

RuleNo(regra) ==
    CASE regra = "vencidos" -> 1
      [] regra = "criticos" -> 2
      [] regra = "medios" -> 3
      [] regra = "grandes_quantidades" -> 4
      [] regra = "sob_controle" -> 5

\* a total quantity above 100
Over100(q) == (q.k = "num" /\ q.v > 100 * Scale) \/ (q.k = "inf" /\ q.v = 1)

\* the count rule r of the recommendations carries
RuleCount(r) ==
    CASE r = 1 -> Cardinality({i \in 1..Len(Lista) : Lista[i].criticidade = "vencido"})
      [] r = 2 -> Cardinality({i \in 1..Len(Lista) : Lista[i].criticidade = "alta"})
      [] r = 3 -> Cardinality({i \in 1..Len(Lista) : Lista[i].criticidade = "média"})
      [] r = 4 -> Cardinality({i \in 1..Len(Lista) :
                      Over100(Lista[i].quantidade_total) /\ Lista[i].criticidade /= "baixa"})

\* C13: the recommendations hold the message of each of the rules 1-4 whose
\* count is positive, with that count, in the order of the rules; the control
\* message is there exactly when no rule fired and is then the only message; a
\* table without rows gives no product and the control message alone.
C13_Recommendations ==
    pc = "done" =>
        /\ \A r \in 1..4 :
              (RuleCount(r) > 0) <=>
                  \E k \in 1..Len(Recs) : RuleNo(Recs[k].regra) = r
        /\ \A k \in 1..Len(Recs) :
              RuleNo(Recs[k].regra) <= 4 => Recs[k].n = RuleCount(RuleNo(Recs[k].regra))
        /\ \A k \in 1..(Len(Recs) - 1) : RuleNo(Recs[k].regra) < RuleNo(Recs[k + 1].regra)
        /\ (\E k \in 1..Len(Recs) : Recs[k].regra = "sob_controle")
              <=> \A r \in 1..4 : RuleCount(r) = 0
        /\ (\E k \in 1..Len(Recs) : Recs[k].regra = "sob_controle") => Len(Recs) = 1
        /\ nrows = 0 => /\ result[1].resumo.total_produtos = 0
                        /\ Recs = <<Recomendacao("sob_controle", 0)>>

\* C13 witness: a result whose recommendations are the expired, the high and
\* the large-quantity message, in this order.
C13_Witness ==
    /\ pc = "done"
    /\ Len(Recs) = 3
    /\ Recs[1].regra = "vencidos" /\ Recs[2].regra = "criticos"
    /\ Recs[3].regra = "grandes_quantidades"

\* --------------------------------------------------------------------- C14
ResumoDe == result[1].resumo

TierCount(c) == Cardinality({i \in 1..Len(Lista) : Lista[i].criticidade = c})

\* |q[n]| + ... + |q[1]| over the total quantities of the returned products
RECURSIVE SumAbsTotals(_)
SumAbsTotals(n) ==
    IF n = 0 THEN FromInt(0)
    ELSE FAdd(FAbs(Lista[n].quantidade_total), SumAbsTotals(n - 1))

\* C14 (as claimed): in a result the three counters are the numbers of expired,
\* high and medium products, total_products is the length of the product list,
\* and total_items equals the sum of the absolute total quantities.
C14_SummaryCounts ==
    pc = "done" =>
        /\ ResumoDe.produtos_vencidos = TierCount("vencido")
        /\ ResumoDe.produtos_vencendo_30_dias = TierCount("alta")
        /\ ResumoDe.produtos_vencendo_60_dias = TierCount("média")
        /\ ResumoDe.total_produtos = Len(Lista)
        /\ ResumoDe.produtos_vencidos + ResumoDe.produtos_vencendo_30_dias
              + ResumoDe.produtos_vencendo_60_dias + TierCount("baixa")
              = ResumoDe.total_produtos
        /\ FEq(ResumoDe.total_itens, SumAbsTotals(Len(Lista)))

\* --------------------------------------------------------------------- C15
\* the orders the rows read can be put in
RowOrders == {f \in [1..Len(rows) -> 1..Len(rows)] :
                 \A i, j \in 1..Len(rows) : f[i] = f[j] => i = j}
Reordered(f) == [i \in 1..Len(rows) |-> rows[f[i]]]

\* what process_data returns for the rows in the order f
ResultIn(f) == ProcessData(columns, Reordered(f))

\* the products agree on what does not come from the first row
SameAggregate(p, q) ==
    /\ p.quantidade_total = q.quantidade_total
    /\ p.menor_dias_restantes = q.menor_dias_restantes
    /\ p.criticidade = q.criticidade
    /\ p.vencimentos_por_mes = q.vencimentos_por_mes

\* C15 (as claimed): the same rows in another order give, for every product
\* code, the same total quantity, minimum days remaining, tier and month
\* buckets (keys, quantities, days remaining, order).
C15_RowOrderIrrelevant ==
    pc = "done" =>
        \A f \in RowOrders :
            ~ResultIn(f).raised =>
                \A i \in 1..Len(Lista) :
                    \E j \in 1..Len(ResultIn(f).result[1].produtos_criticos) :
                        /\ ResultIn(f).result[1].produtos_criticos[j].cod_prod
                              = Lista[i].cod_prod
                        /\ SameAggregate(ResultIn(f).result[1].produtos_criticos[j],
                                         Lista[i])

\* --------------------------------------------------------------------- C16
\* the line items of the expired and high products among the first n returned
RECURSIVE CriticalItems(_)
CriticalItems(n) ==
    IF n = 0 THEN 0
    ELSE CriticalItems(n - 1)
         + (IF Lista[n].criticidade \in {"vencido", "alta"}
            THEN Len(Lista[n].itens_detalhados) ELSE 0)

CriticalSheet == workbook[1].criticos

\* the rows of the sheet with the code and the days remaining of a line item
RowsFor(cod_prod, dias) ==
    {k \in 1..Len(CriticalSheet.rows) :
        CriticalSheet.rows[k].codigo = cod_prod /\ CriticalSheet.rows[k].dias_restantes = dias}
ItemsFor(p, dias) ==
    {k \in 1..Len(p.itens_detalhados) : p.itens_detalhados[k].dias_restantes = dias}

\* the sheet has as many rows as there are line items of expired and high
\* products, as many rows for a product and a date as the product has line items
\* with that date, and no row of another tier; the result is what was returned
RowPerCriticalItem ==
    /\ Len(CriticalSheet.rows) = CriticalItems(Len(Lista))
    /\ \A i \in 1..Len(Lista) : \A k \in 1..Len(Lista[i].itens_detalhados) :
          Cardinality(RowsFor(Lista[i].cod_prod, Lista[i].itens_detalhados[k].dias_restantes))
              = IF Lista[i].criticidade \in {"vencido", "alta"}
                THEN Cardinality(ItemsFor(Lista[i], Lista[i].itens_detalhados[k].dias_restantes))
                ELSE 0
    /\ \A k \in 1..Len(CriticalSheet.rows) :
          CriticalSheet.rows[k].criticidade \in {"VENCIDO", "ALTA"}
    /\ result = <<ResultDict(ProdutosLista(produtos), estatisticas, col_mapping)>>

\* C16 (amended): the workbook has one row in the critical-items sheet per line
\* item of each expired or high product and none of a medium or low product; when
\* there is no such line item the workbook has no critical-items sheet; the
\* export leaves the result as it was.
C16_CriticalSheet ==
    workbook /= <<>> =>
        /\ RowPerCriticalItem
        /\ CriticalSheet.present <=> CriticalItems(Len(Lista)) > 0

\* C16 (as claimed): the same, the critical-items sheet being in the workbook
\* also when it has no row.
C16_Original ==
    workbook /= <<>> =>
        /\ RowPerCriticalItem
        /\ CriticalSheet.present

\* C16 witness: a workbook whose critical-items sheet has the two rows of a high
\* product, the result holding a medium or low product too.
C16_Witness ==
    /\ workbook /= <<>>
    /\ CriticalSheet.present
    /\ Len(CriticalSheet.rows) = 2
    /\ CriticalSheet.rows[1].codigo = CriticalSheet.rows[2].codigo
    /\ \E i \in 1..Len(Lista) : Lista[i].criticidade \in {"média", "baixa"}

\* --------------------------------------------------------------------- C17
\* after a script run: no temporary file is left, the stored analysis is what a
\* successful load and process of some file returned, and a run that processed
\* the file shows the error it raised, or stores its result and shows no error
AttemptSettled ==
    /\ tmp_files = {}
    /\ analysis /= <<>> =>
          \E f \in Files : ~RunAnalysis(f.name).raised /\ analysis = RunAnalysis(f.name).result
    /\ (processed /\ RunAnalysis(uploaded_file).raised) =>
          error = "Erro ao processar arquivo: " \o RunAnalysis(uploaded_file).err
    /\ (processed /\ ~RunAnalysis(uploaded_file).raised) =>
          error = "" /\ analysis = RunAnalysis(uploaded_file).result

\* a run whose attempt raises leaves the stored analysis as it was, and the
\* stored analysis changes only to the result of a successful attempt
AttemptStep ==
    /\ (processed' /\ RunAnalysis(uploaded_file').raised) => analysis' = analysis
    /\ analysis' /= analysis =>
          /\ processed'
          /\ ~RunAnalysis(uploaded_file').raised
          /\ analysis' = RunAnalysis(uploaded_file').result

\* C17: the stored analysis is replaced only when load_data and process_data
\* both succeeded; when the attempt raises, the error is displayed, the stored
\* analysis is the one from before the attempt and the temporary file is gone.
C17_KeepLastOnFailure == []AttemptSettled /\ [][AttemptStep]_vars

\* C17 witness: a reprocess attempt raised while an earlier analysis was stored,
\* and that analysis is still stored.
C17_Witness ==
    /\ processed
    /\ error /= ""
    /\ analysis /= <<>>
    /\ tmp_files = {}

\* --------------------------------------------------------------------- C18
\* C18 (as claimed): whenever results are displayed with a file in the uploader,
\* the displayed analysis is the one computed from that file.
C18_DisplayedIsOfCurrentFile ==
    (displayed /= <<>> /\ uploaded_file /= NoFile) =>
        /\ displayed[1].filename = uploaded_file
        /\ ~RunAnalysis(uploaded_file).raised
        /\ <<displayed[1].analysis>> = RunAnalysis(uploaded_file).result

\* --------------------------------------------------------------------- C19
\* the rows read so far that have a product code and a date that parses
ProcessedRows ==
    {i \in 1..Len(rows) : /\ ~CodigoVazio(rows[i][col_mapping.cod_prod])
                          /\ ParseDate(rows[i][col_mapping.dt_val]).kind = "date"}

\* C19: every row read is counted once, as processed or as ignored: the two
\* counters add up to the rows read and, in a result, to total_rows; the rows
\* with a code and a date that parses are the processed ones; the invalid-date
\* counter is never above the ignored counter.
C19_EveryRowCountedOnce ==
    /\ pc \in {"loop", "done"} =>
          /\ estatisticas.linhas_processadas + estatisticas.linhas_ignoradas = Len(rows)
          /\ estatisticas.linhas_processadas = Cardinality(ProcessedRows)
          /\ estatisticas.datas_invalidas <= estatisticas.linhas_ignoradas
    /\ pc = "done" =>
          /\ result[1].estatisticas = estatisticas
          /\ estatisticas.total_linhas = nrows
          /\ estatisticas.total_linhas
                = estatisticas.linhas_processadas + estatisticas.linhas_ignoradas

\* C19 witness: a result for three rows, one processed, one with an invalid
\* date and one ignored for another reason.
C19_Witness ==
    /\ pc = "done"
    /\ estatisticas.total_linhas = 3
    /\ estatisticas.linhas_processadas = 1
    /\ estatisticas.datas_invalidas = 1
    /\ estatisticas.linhas_ignoradas = 2

\* --------------------------------------------------------------------- C20
RECURSIVE CountItems(_)
CountItems(n) == IF n = 0 THEN 0 ELSE CountItems(n - 1) + Len(Lista[n].itens_detalhados)

RECURSIVE SumBuckets(_, _)
SumBuckets(venc, n) ==
    IF n = 0 THEN FromInt(0) ELSE FAdd(SumBuckets(venc, n - 1), venc[n].quantidade)

\* C20 (as claimed): in a result processed_rows is the number of line items of
\* all products, every product has a line item and never the minimum 999, and
\* for every product the bucket quantities sum to the total quantity, no month
\* key being in two buckets.
C20_ItemsAndBuckets ==
    pc = "done" =>
        /\ result[1].estatisticas.linhas_processadas = CountItems(Len(Lista))
        /\ \A i \in 1..Len(Lista) :
              /\ Len(Lista[i].itens_detalhados) >= 1
              /\ Lista[i].menor_dias_restantes /= 999
              /\ FEq(SumBuckets(Lista[i].vencimentos_por_mes,
                                Len(Lista[i].vencimentos_por_mes)),
                     Lista[i].quantidade_total)
              /\ \A k, l \in 1..Len(Lista[i].vencimentos_por_mes) :
                    Lista[i].vencimentos_por_mes[k].mes_ano
                        = Lista[i].vencimentos_por_mes[l].mes_ano => k = l
====
